---- MODULE Spec2Model ----
(***************************************************************************)
(* six-scraper: watchlist and tick store commands, the CSV/JSON codec and  *)
(* the incremental merge of a fetched tick series into a file or the store *)
(* (src/six-scraper.py).                                                   *)
(*                                                                         *)
(* A datetime is a whole number of seconds after EPOCH: every datetime the *)
(* program handles comes out of strptime with a one-second format.  A      *)
(* field of a file is modelled by what the parsers make of it:             *)
(*   [k |-> "dt",  v |-> t]   the text 'DD.MM.YYYY HH:MM:SS' of datetime t *)
(*   [k |-> "num", v |-> n]   the decimal text of the number n             *)
(*   [k |-> "val", v |-> n]   the JSON number n                            *)
(*   [k |-> "bad", v |-> 0]   a text no parser accepts                     *)
(* An unknown symbol or isin (None, null, '') is the empty string.         *)
(***************************************************************************)
EXTENDS Integers, Sequences, FiniteSets, TLC

\* ------------------------------------------------------------- bounds
\* Latest tick time the exchange or an input file carries.
MaxT == 2
\* Longest series the exchange returns for one fetch.
MaxLen == 2

\* ---------------------------------------------------- program constants
EPOCH == 0

\* What a parser returns for a text it rejects (ValueError).
Bad == -1

\* ------------------------------------------------------------- fields
StrDt(t) == [k |-> "dt", v |-> t]
StrNum(n) == [k |-> "num", v |-> n]
Num(n) == [k |-> "val", v |-> n]
BadStr == [k |-> "bad", v |-> 0]

\* A str_datetime that writes the date alone ('%d.%m.%Y').
str_datetime_DateOnly(dt) == [k |-> "date", v |-> dt]

\* datetime.strftime('%d.%m.%Y %H:%M:%S')
str_datetime(dt) == StrDt(dt)

\* datetime.strptime(s, '%d.%m.%Y %H:%M:%S')
parse_datetime(s) == IF s.k = "dt" THEN s.v ELSE Bad

\* float(x) or int(x), of a number or of the text of one.
ToNumber(x) == IF x.k \in {"num", "val"} THEN x.v ELSE Bad

\* str(x) as csv.writer applies it to a field that is not a string.
CsvField(x) == IF x.k = "val" THEN StrNum(x.v) ELSE x

\* ------------------------------------------------------ MarketData
MarketData(symbol, isin, data) == [symbol |-> symbol, isin |-> isin, data |-> data]

\* A call's outcome: ok with a value, or not ok: it raised, or ended in _exit
\* with the message err.
Raised(err) == [ok |-> FALSE, err |-> err, symbol |-> "", isin |-> "", data |-> <<>>]
Ok(md) == [ok |-> TRUE, err |-> "", symbol |-> md.symbol, isin |-> md.isin, data |-> md.data]

\* The messages of _exit.
NotFound == "is not found"
Exists == "already exists"
BrokenFormat == "format is broken"
Tracked == "is already in update list"
NotInDb == "is not found in database"
NoReader == "don't know how to read"
NoSuchFile == "file not found"
NotRegistered == "not registered in database"
NoGuess == "can't guess stock"
BrokenFile == "BrokenFile"

\* A from_rows that takes the first three fields of a row and drops the rest
\* (for dt, price, volume, *_ in rows).
RowParses_ThreeOrMore(row) ==
    /\ Len(row) >= 3
    /\ parse_datetime(row[1]) # Bad
    /\ ToNumber(row[2]) # Bad
    /\ ToNumber(row[3]) # Bad

RowParses(row) ==
    /\ Len(row) = 3
    /\ parse_datetime(row[1]) # Bad
    /\ ToNumber(row[2]) # Bad
    /\ ToNumber(row[3]) # Bad

\* MarketData.from_rows: every row unpacks into exactly three fields, each parsed.
from_rows(symbol, isin, rows) ==
    IF \A i \in 1..Len(rows) : RowParses(rows[i])
    THEN Ok(MarketData(symbol, isin,
            [i \in 1..Len(rows) |->
                <<parse_datetime(rows[i][1]), ToNumber(rows[i][2]), ToNumber(rows[i][3])>>]))
    ELSE Raised("ValueError")

\* An encoded_rows that keeps the records at start too (dt >= start).
RECURSIVE encoded_rows_AtOrAfter(_, _)
encoded_rows_AtOrAfter(data, start) ==
    IF data = <<>> THEN <<>>
    ELSE LET tick == Head(data)
             rest == encoded_rows_AtOrAfter(Tail(data), start)
         IN IF tick[1] >= start
            THEN <<(<<StrDt(tick[1]), Num(tick[2]), Num(tick[3])>>)>> \o rest
            ELSE rest

\* MarketData.encoded_rows: the records after start, in the series' order.
RECURSIVE encoded_rows(_, _)
encoded_rows(data, start) ==
    IF data = <<>> THEN <<>>
    ELSE LET tick == Head(data)
             rest == encoded_rows(Tail(data), start)
         IN IF tick[1] > start
            THEN <<(<<str_datetime(tick[1]), Num(tick[2]), Num(tick[3])>>)>> \o rest
            ELSE rest

\* ------------------------------------------------------------- files
\* A file is its text, by type: "csv" (rows are its lines, split at ';'),
\* "json" (one object: symbol, isin, ticks) or "none" (no such file).
NoFile == [type |-> "none", symbol |-> "", isin |-> "", rows |-> <<>>]
CsvFile(rows) == [type |-> "csv", symbol |-> "", isin |-> "", rows |-> rows]
JsonFile(symbol, isin, rows) == [type |-> "json", symbol |-> symbol, isin |-> isin, rows |-> rows]

\* _write_json: f was opened with 'w'; the whole object is dumped.
write_json(f, data, last_dt, old_ticks) ==
    JsonFile(data.symbol, data.isin, old_ticks \o encoded_rows(data.data, last_dt))

\* _read_json
read_json(f) ==
    LET data == from_rows(f.symbol, f.isin, f.rows)
    IN IF f.type = "json" /\ data.ok THEN data ELSE Raised(BrokenFile)

PeekFailed == [ok |-> FALSE, last_dt |-> EPOCH, old_ticks |-> <<>>]

\* A _peek_json that reads the time of the first tick (old_ticks[0]).
peek_json_First(f) ==
    IF f.type # "json" THEN PeekFailed
    ELSE IF f.rows = <<>> THEN [ok |-> TRUE, last_dt |-> EPOCH, old_ticks |-> <<>>]
    ELSE LET first == f.rows[1]
         IN IF first = <<>> \/ parse_datetime(first[1]) = Bad THEN PeekFailed
            ELSE [ok |-> TRUE, last_dt |-> parse_datetime(first[1]), old_ticks |-> f.rows]

\* _peek_json: the watermark is the time of the last tick of the file.
peek_json(f) ==
    IF f.type # "json" THEN PeekFailed
    ELSE IF f.rows = <<>> THEN [ok |-> TRUE, last_dt |-> EPOCH, old_ticks |-> <<>>]
    ELSE LET last == f.rows[Len(f.rows)]
         IN IF last = <<>> \/ parse_datetime(last[1]) = Bad THEN PeekFailed
            ELSE [ok |-> TRUE, last_dt |-> parse_datetime(last[1]), old_ticks |-> f.rows]

CsvLine(row) == [i \in 1..Len(row) |-> CsvField(row[i])]

\* The lines of a file's text; the text of a JSON object is one line without ';'.
TextLines(f) == IF f.type = "json" THEN << <<BadStr>> >> ELSE f.rows

\* _write_csv: the rows go after whatever the opened file holds; old_ticks is unused.
write_csv(f, data, last_dt, old_ticks) ==
    LET rows == encoded_rows(data.data, last_dt)
    IN CsvFile(TextLines(f) \o [i \in 1..Len(rows) |-> CsvLine(rows[i])])

\* _read_csv
read_csv(f) ==
    LET data == from_rows("", "", TextLines(f))
    IN IF data.ok THEN data ELSE Raised(BrokenFile)

\* _peek_csv: the last line's text before the first ';'. A line of one field
\* keeps its line end, which strptime rejects.
peek_csv(f) ==
    IF TextLines(f) = <<>> THEN [ok |-> TRUE, last_dt |-> EPOCH, old_ticks |-> <<>>]
    ELSE LET last == TextLines(f)[Len(TextLines(f))]
         IN IF Len(last) < 2 \/ parse_datetime(last[1]) = Bad THEN PeekFailed
            ELSE [ok |-> TRUE, last_dt |-> parse_datetime(last[1]), old_ticks |-> <<>>]

\* ------------------------------------------------------- save_data
\* The name of a file: its base name and its extension.
FileName(base, ext) == <<base, ext>>
Stdout == <<"-", "">>

\* IMPLEMENTATIONS[format][2]: the mode the destination is opened with to write.
FileMode(format) == IF format = "json" THEN "w" ELSE "a"

\* open(filename, file_mode): 'w' truncates, 'a' keeps what the file holds.
Opened(f, file_mode) == IF file_mode = "w" THEN NoFile ELSE f

peek(format, f) == IF format = "json" THEN peek_json(f) ELSE peek_csv(f)

write(format, f, data, last_dt, old_ticks) ==
    IF format = "json" THEN write_json(f, data, last_dt, old_ticks)
    ELSE write_csv(f, data, last_dt, old_ticks)

\* A save_data whose strict mode goes on to write, as overwrite does.
save_data_StrictWrites(fs, data, format, mode, filename) ==
    LET name == IF filename = <<>> THEN FileName(data.symbol, format) ELSE filename
        exists == name # Stdout /\ fs[name].type # "none"
        pk == IF exists /\ mode = "append" THEN peek(format, fs[name])
              ELSE [ok |-> TRUE, last_dt |-> EPOCH, old_ticks |-> <<>>]
    IN IF ~pk.ok THEN [ok |-> FALSE, err |-> BrokenFormat, fs |-> fs]
       ELSE IF name = Stdout THEN [ok |-> TRUE, err |-> "", fs |-> fs]
       ELSE [ok |-> TRUE, err |-> "",
             fs |-> [fs EXCEPT ![name] =
                        write(format, Opened(fs[name], FileMode(format)),
                              data, pk.last_dt, pk.old_ticks)]]

\* save_data: ok is FALSE when it ended in _exit, with the message err; fs is
\* the file system after it.
save_data(fs, data, format, mode, filename) ==
    LET name == IF filename = <<>> THEN FileName(data.symbol, format) ELSE filename
        exists == name # Stdout /\ fs[name].type # "none"
        pk == IF exists /\ mode = "append" THEN peek(format, fs[name])
              ELSE [ok |-> TRUE, last_dt |-> EPOCH, old_ticks |-> <<>>]
    IN IF exists /\ mode = "strict" THEN [ok |-> FALSE, err |-> Exists, fs |-> fs]
       ELSE IF ~pk.ok THEN [ok |-> FALSE, err |-> BrokenFormat, fs |-> fs]
       ELSE IF name = Stdout THEN [ok |-> TRUE, err |-> "", fs |-> fs]
       ELSE [ok |-> TRUE, err |-> "",
             fs |-> [fs EXCEPT ![name] =
                        write(format, Opened(fs[name], FileMode(format)),
                              data, pk.last_dt, pk.old_ticks)]]

\* ------------------------------------------------------------ store
\* A document of db.stocks and one of db.ticks.
Stock(symbol, isin) == [symbol |-> symbol, isin |-> isin]
TickDoc(symbol, isin, tick) ==
    [symbol |-> symbol, isin |-> isin, time |-> tick[1], price |-> tick[2], volume |-> tick[3]]

NoStock == Stock("", "")

\* find_one({'$or': [{'symbol': id}, {'isin': id}]}): the first match, NoStock for None.
find_stock(stocks, id) ==
    LET hits == {i \in 1..Len(stocks) : stocks[i].symbol = id \/ stocks[i].isin = id}
    IN IF hits = {} THEN NoStock
       ELSE stocks[CHOOSE i \in hits : \A j \in hits : i <= j]

\* db.ticks.find_one({'symbol': symbol}, sort=[('time', -1)]), then doc['time'] or EPOCH.
start_time(ticks, symbol) ==
    LET docs == {i \in 1..Len(ticks) : ticks[i].symbol = symbol}
    IN IF docs = {} THEN EPOCH
       ELSE ticks[CHOOSE i \in docs : \A j \in docs : ticks[i].time >= ticks[j].time].time

RECURSIVE NewRows(_, _)
NewRows(data, start) ==
    IF data.data = <<>> THEN <<>>
    ELSE LET tick == Head(data.data)
             rest == NewRows([data EXCEPT !.data = Tail(data.data)], start)
         IN IF tick[1] > start
            THEN <<TickDoc(data.symbol, data.isin, tick)>> \o rest
            ELSE rest

\* save_data_to_db with 't >= start_time' for 't > start_time'.
save_data_to_db_AtOrAfter(ticks, data) ==
    ticks \o NewRows(data, start_time(ticks, data.symbol) - 1)

\* save_data_to_db: the ticks collection after it.
save_data_to_db(ticks, data) ==
    ticks \o NewRows(data, start_time(ticks, data.symbol))

\* sorted ascending by time, documents of equal time in their stored order.
RECURSIVE SortByTime(_)
SortByTime(docs) ==
    IF docs = <<>> THEN <<>>
    ELSE LET m == CHOOSE i \in 1..Len(docs) :
                    /\ \A j \in 1..Len(docs) : docs[i].time <= docs[j].time
                    /\ \A j \in 1..(i - 1) : docs[j].time # docs[i].time
         IN <<docs[m]>> \o SortByTime(SubSeq(docs, 1, m - 1) \o SubSeq(docs, m + 1, Len(docs)))

\* A range boundary that was not given (from_=None, to=None).
NoTime == -1

\* load_data_from_db
load_data_from_db(stocks, ticks, id, from, to) ==
    LET stock == find_stock(stocks, id)
        InRange(d) == /\ d.symbol = stock.symbol
                      /\ (from # NoTime => d.time >= from)
                      /\ (to # NoTime => d.time <= to)
        rows == SortByTime(SelectSeq(ticks, InRange))
    IN IF stock = NoStock THEN Raised(NotInDb)
       ELSE Ok(MarketData(stock.symbol, stock.isin,
                          [i \in 1..Len(rows) |-> <<rows[i].time, rows[i].price, rows[i].volume>>]))

\* ---------------------------------------------------------- exchange
\* The securities the exchange lists; an identifier is a symbol or an isin.
Listed == {Stock("A", "IA"), Stock("B", "IB")}
Ids == {"A", "IA", "B", "IB", "X"}

\* The price and volume a tick may carry.
Quotes == {<<21, 90>>}
Times == (EPOCH + 1)..MaxT
Ticks == {<<t, q[1], q[2]>> : t \in Times, q \in Quotes}

\* The data rows of an export, as the exchange lists them: newest first.
RawRows ==
    {r \in UNION {[1..n -> Ticks] : n \in 0..MaxLen} :
        \A i \in 1..(Len(r) - 1) : r[i][1] >= r[i + 1][1]}

\* What the exchange may answer for id: asked by symbol, security A has traded
\* at any times; every other answer holds one trade, at the first second.
ExportsOf(id) ==
    IF id = "A" THEN RawRows
    ELSE {<< <<EPOCH + 1, 21, 90>> >>}

Reverse(s) == [i \in 1..Len(s) |-> s[Len(s) + 1 - i]]

\* The text of an export, as _parse_csv splits it: lines of fields, a blank
\* line having none. Its fields are modelled by what _parse_raw makes of them:
\*   [k |-> "header", v |-> n]  free text holding '(SYMBOL/ISIN)' of security n
\*   [k |-> "date", v |-> d]    the text 'DD.MM.YYYY' of the day that starts at d
\*   [k |-> "time", v |-> t]    the text 'HH:MM:SS', t seconds into the day
\*   [k |-> "text", v |-> 0]    any other text, the empty one too
Securities == <<Stock("A", "IA"), Stock("B", "IB")>>
HeaderField(sec) ==
    [k |-> "header", v |-> CHOOSE n \in 1..Len(Securities) : Securities[n] = sec]
DateField(d) == [k |-> "date", v |-> d]
TimeField(t) == [k |-> "time", v |-> t]
Text == [k |-> "text", v |-> 0]

\* The exchange's export of a day's trades of sec: the header, the date, the
\* column names, a line for each trade, every line ending in ';', and a
\* blank line.
DataLine(t, price, volume) == <<TimeField(t), StrNum(price), StrNum(volume), Text>>
ExportText(sec, rows) ==
    << <<HeaderField(sec)>>, <<DateField(EPOCH), Text>>, <<Text, Text, Text, Text>> >>
        \o [i \in 1..Len(rows) |-> DataLine(rows[i][1] - EPOCH, rows[i][2], rows[i][3])]
        \o << <<>> >>

\* _parse_csv
parse_csv(raw_csv) == raw_csv

\* re_find(r'\((\w+)\/(\w+)\)', s): the two groups, or None (NoStock).
re_find(s) == IF s.k = "header" THEN Securities[s.v] ELSE NoStock

\* date_str + ' ' + t.strip()
DateTimeText(date_str, t) ==
    IF date_str.k = "date" /\ t.k = "time" THEN StrDt(date_str.v + t.v) ELSE BadStr

\* _grab_raw: the export of the security id names, not ok when the exchange
\* answers 'not_found' (_exit).
grab_raw(id, rows) ==
    IF \E sec \in Listed : sec.symbol = id \/ sec.isin = id
    THEN LET sec == CHOOSE sec \in Listed : sec.symbol = id \/ sec.isin = id
         IN [ok |-> TRUE, err |-> "", text |-> ExportText(sec, rows)]
    ELSE [ok |-> FALSE, err |-> NotFound, text |-> <<>>]

\* The lines parsed[3:-1] of _parse_raw.
DataLines(parsed) ==
    IF Len(parsed) < 5 THEN <<>> ELSE SubSeq(parsed, 4, Len(parsed) - 1)

\* A data line unpacks into three fields or more and each of the three parses.
LineParses(date_str, line) ==
    /\ Len(line) >= 3
    /\ parse_datetime(DateTimeText(date_str, line[1])) # Bad
    /\ ToNumber(line[2]) # Bad
    /\ ToNumber(line[3]) # Bad

\* _parse_raw: symbol and isin of the header, the data lines oldest first. It
\* raises IndexError when the first or the second line is missing or blank,
\* TypeError when the header's first field holds no '(SYMBOL/ISIN)', and
\* ValueError when a data line does not parse.
parse_raw(raw_data) ==
    LET parsed == parse_csv(raw_data)
        found == re_find(parsed[1][1])
        date_str == parsed[2][1]
        lines == DataLines(parsed)
    IN IF Len(parsed) < 1 \/ parsed[1] = <<>> THEN Raised("IndexError")
       ELSE IF found = NoStock THEN Raised("TypeError")
       ELSE IF Len(parsed) < 2 \/ parsed[2] = <<>> THEN Raised("IndexError")
       ELSE IF \E i \in 1..Len(lines) : ~LineParses(date_str, lines[i])
            THEN Raised("ValueError")
       ELSE Ok(MarketData(found.symbol, found.isin,
                Reverse([i \in 1..Len(lines) |->
                    <<parse_datetime(DateTimeText(date_str, lines[i][1])),
                      ToNumber(lines[i][2]), ToNumber(lines[i][3])>>])))

\* grab
grab(id, rows) ==
    LET raw == grab_raw(id, rows)
    IN IF raw.ok THEN parse_raw(raw.text) ELSE Raised(raw.err)

\* ---------------------------------------------------------- commands
\* What a command works on, and what it leaves: ok is FALSE when it ended in
\* _exit, with the message err and whatever it had written by then.
State(st_stocks, st_ticks, st_files) ==
    [stocks |-> st_stocks, ticks |-> st_ticks, files |-> st_files]
Done(st) == [ok |-> TRUE, err |-> "", st |-> st]
Aborted(st, err) == [ok |-> FALSE, err |-> err, st |-> st]

\* do_add looking the identifier up among the symbols only.
do_add_SymbolOnly(st, id, rows) ==
    IF \E i \in 1..Len(st.stocks) : st.stocks[i].symbol = id THEN Aborted(st, Tracked)
    ELSE LET data == grab(id, rows)
         IN IF ~data.ok THEN Aborted(st, data.err)
            ELSE Done([st EXCEPT
                    !.ticks = save_data_to_db(st.ticks, data),
                    !.stocks = Append(st.stocks, Stock(data.symbol, data.isin))])

\* do_add
do_add(st, id, rows) ==
    IF find_stock(st.stocks, id) # NoStock THEN Aborted(st, Tracked)
    ELSE LET data == grab(id, rows)
         IN IF ~data.ok THEN Aborted(st, data.err)
            ELSE Done([st EXCEPT
                    !.ticks = save_data_to_db(st.ticks, data),
                    !.stocks = Append(st.stocks, Stock(data.symbol, data.isin))])

\* do_remove erasing the ticks by symbol only.
do_remove_BySymbol(st, ids, purge_data) ==
    LET Named(d) == d.symbol \in ids \/ d.isin \in ids
        Kept(d) == ~Named(d)
        KeptTick(d) == d.symbol \notin ids
    IN Done([st EXCEPT
            !.stocks = SelectSeq(st.stocks, Kept),
            !.ticks = IF purge_data THEN SelectSeq(st.ticks, KeptTick) ELSE st.ticks])

\* do_remove: ids is the set of the identifiers named.
do_remove(st, ids, purge_data) ==
    LET Named(d) == d.symbol \in ids \/ d.isin \in ids
        Kept(d) == ~Named(d)
    IN Done([st EXCEPT
            !.stocks = SelectSeq(st.stocks, Kept),
            !.ticks = IF purge_data THEN SelectSeq(st.ticks, Kept) ELSE st.ticks])

\* _do_update
do_update(st, id, rows) ==
    LET data == grab(id, rows)
    IN IF ~data.ok THEN Aborted(st, data.err)
       ELSE Done([st EXCEPT !.ticks = save_data_to_db(st.ticks, data)])

\* The options of main: format, mode and the -f file name (<<>> when not given).
Options(format, mode, filename) == [format |-> format, mode |-> mode, filename |-> filename]

SaveTo(st, data, options) ==
    LET res == save_data(st.files, data, options.format, options.mode, options.filename)
    IN [ok |-> res.ok, err |-> res.err, st |-> [st EXCEPT !.files = res.fs]]

\* do_grab
do_grab(st, id, rows, options) ==
    LET data == grab(id, rows)
    IN IF ~data.ok THEN Aborted(st, data.err) ELSE SaveTo(st, data, options)

\* do_export
do_export(st, id, from, to, options) ==
    LET data == load_data_from_db(st.stocks, st.ticks, id, from, to)
    IN IF ~data.ok THEN Aborted(st, data.err) ELSE SaveTo(st, data, options)

\* load_data: format is "" when neither --csv nor --json is given, as_id is ""
\* without --as.
load_data(st, filename, as_id, format) ==
    LET fmt == IF format = "" THEN filename[2] ELSE format
        f == st.files[filename]
        data == IF fmt = "json" THEN read_json(f) ELSE read_csv(f)
        guess == IF as_id = "" THEN filename[1] ELSE as_id
        stock == find_stock(st.stocks, guess)
    IN IF fmt \notin {"csv", "json"} THEN Raised(NoReader)
       ELSE IF f.type = "none" THEN Raised(NoSuchFile)
       ELSE IF ~data.ok THEN Raised(BrokenFormat)
       ELSE IF data.symbol # "" THEN data
       ELSE IF stock = NoStock
            THEN Raised(IF as_id = "" THEN NoGuess ELSE NotRegistered)
       ELSE Ok(MarketData(stock.symbol, stock.isin, data.data))

\* do_load
do_load(st, filename, as_id, format) ==
    LET data == load_data(st, filename, as_id, format)
    IN IF ~data.ok THEN Aborted(st, data.err)
       ELSE Done([st EXCEPT !.ticks = save_data_to_db(st.ticks, data)])

\* ------------------------------------------------------------ batches
\* What main hands on with a list of identifiers: the answers of the exchange
\* while the command runs (identifier -> rows), the range and the options.
Args(answers, from, to, options) ==
    [rows |-> answers, from |-> from, to |-> to, options |-> options]

\* action(stock, *args, **kwargs), for the action main gives _process_stocks.
Call(action, st, id, args) ==
    CASE action = "add" -> do_add(st, id, args.rows[id])
      [] action = "grab" -> do_grab(st, id, args.rows[id], args.options)
      [] action = "update" -> do_update(st, id, args.rows[id])
      [] action = "export" -> do_export(st, id, args.from, args.to, args.options)

\* A _process_stocks that lets SystemExit through: the first _exit ends the list.
RECURSIVE process_stocks_NoSuppress(_, _, _, _)
process_stocks_NoSuppress(action, st, ids, args) ==
    IF ids = <<>> THEN [st |-> st, log |-> <<>>]
    ELSE LET res == Call(action, st, Head(ids), args)
             rest == IF res.ok THEN process_stocks_NoSuppress(action, res.st, Tail(ids), args)
                     ELSE [st |-> res.st, log |-> <<>>]
         IN [st |-> rest.st,
             log |-> <<[id |-> Head(ids), err |-> res.err]>> \o rest.log]

\* _process_stocks: the action on each identifier in turn, SystemExit
\* suppressed. log is how each call ended, in the order of the calls.
RECURSIVE process_stocks(_, _, _, _)
process_stocks(action, st, ids, args) ==
    IF ids = <<>> THEN [st |-> st, log |-> <<>>]
    ELSE LET res == Call(action, st, Head(ids), args)
             rest == process_stocks(action, res.st, Tail(ids), args)
         IN [st |-> rest.st,
             log |-> <<[id |-> Head(ids), err |-> res.err]>> \o rest.log]

\* do_update's list: the identifiers given, or every symbol of the watchlist.
update_list(st, ids) ==
    IF ids = <<>> THEN [i \in 1..Len(st.stocks) |-> st.stocks[i].symbol] ELSE ids

\* main, for the commands that take a list of identifiers.
main(cmd, st, ids, args) ==
    process_stocks(cmd, st, IF cmd = "update" THEN update_list(st, ids) ELSE ids, args)

\* ------------------------------------------------------ state machine
\* stocks: the watchlist (db.stocks), in insertion order.
\* ticks:  the tick store (db.ticks), in insertion order.
\* files:  the file system, file name -> file.
\* last:   the command that ran last and the message it ended with ("" when it
\*         ran to its end); of a command on a list, how each call ended.
VARIABLES stocks, ticks, files, last
vars == <<stocks, ticks, files, last>>

Bases == {"A", "B", "some"}
Formats == {"csv", "json"}
Modes == {"strict", "append", "overwrite"}
FileNames == {FileName(b, e) : b \in Bases, e \in Formats}
NoFiles == [name \in FileNames |-> NoFile]

Here == State(stocks, ticks, files)

Ran(cmd, err) == [cmd |-> cmd, err |-> err]

Becomes(res, cmd) ==
    /\ stocks' = res.st.stocks
    /\ ticks' = res.st.ticks
    /\ files' = res.st.files
    /\ last' = Ran(cmd, res.err)

Add(id, rows) == Becomes(do_add(Here, id, rows), "add")
Remove(ids) == Becomes(do_remove(Here, ids, FALSE), "remove")
Purge(ids) == Becomes(do_remove(Here, ids, TRUE), "purge")
Update(id, rows) == Becomes(do_update(Here, id, rows), "update")
Grab(id, rows, options) == Becomes(do_grab(Here, id, rows, options), "grab")
Export(id, from, to, options) == Becomes(do_export(Here, id, from, to, options), "export")
Load(filename, as_id, format) == Becomes(do_load(Here, filename, as_id, format), "load")

Batch(cmd, ids, args) ==
    LET run == main(cmd, Here, ids, args)
    IN /\ stocks' = run.st.stocks
       /\ ticks' = run.st.ticks
       /\ files' = run.st.files
       /\ last' = Ran(cmd, run.log)

\* ------------------------------------------- the store and the watchlist
\* The files load is given. CSV rows are texts, JSON ticks hold numbers.
CsvRow(t) == <<StrDt(t), StrNum(21), StrNum(90)>>
JsonRow(t) == <<StrDt(t), Num(21), Num(90)>>
InputFiles ==
    [NoFiles EXCEPT
        ![FileName("A", "csv")] = CsvFile(<<CsvRow(MaxT), CsvRow(1)>>),
        ![FileName("some", "csv")] = CsvFile(<<CsvRow(1)>>),
        ![FileName("B", "csv")] = CsvFile(<<CsvRow(1), <<BadStr, StrNum(21), StrNum(90)>> >>),
        ![FileName("A", "json")] = JsonFile("A", "IA", <<JsonRow(1)>>),
        ![FileName("B", "json")] = JsonFile("B", "", <<JsonRow(1)>>),
        ![FileName("some", "json")] = JsonFile("", "", <<JsonRow(1)>>)]

IdSets == {{}, {"A"}, {"IB"}, {"X"}, {"IA", "B"}, {"A", "X"}}
\* The files load is run on and the --as it is given ("" for none).
Loads ==
    {<<FileName(b, e), "">> : b \in Bases, e \in Formats}
        \cup {<<FileName("some", e), as_id>> : e \in Formats, as_id \in {"IB", "X"}}
        \cup {<<FileName("A", "json"), "IB">>}

InitStore ==
    /\ stocks = <<>>
    /\ ticks = <<>>
    /\ files = InputFiles
    /\ last = Ran("init", "")

NextStore ==
    \/ \E id \in Ids : \E rows \in ExportsOf(id) : Add(id, rows)
    \/ \E ids \in IdSets : Remove(ids)
    \/ \E ids \in IdSets : Purge(ids)
    \/ \E id \in {"A", "IB", "X"} : \E rows \in ExportsOf(id) : Update(id, rows)
    \/ \E l \in Loads, format \in {"", "json"} : Load(l[1], l[2], format)

SpecStore == InitStore /\ [][NextStore]_vars

\* Every series a command may hand to the store: an identity of the exchange
\* or of an input file, and records in any order.
SeriesData == UNION {[1..n -> Ticks] : n \in 0..MaxLen}
Identities == {<<"A", "IA">>, <<"B", "IB">>, <<"B", "">>}
Incoming == {MarketData(i[1], i[2], d) : i \in Identities, d \in SeriesData}

TimesStored(symbol) == {ticks[i].time : i \in {j \in 1..Len(ticks) : ticks[j].symbol = symbol}}

\* C5: in every state of the store and for every incoming series of a symbol s,
\* save_data_to_db appends exactly the incoming records later than every time
\* stored for s (all of them when none is stored, none when none qualifies), in
\* the incoming order, and keeps every stored tick, of s or not, as it was.
C5_StoreMergeInsertsOnlyNewer ==
    \A data \in Incoming :
        LET Newer(tick) == \A t \in TimesStored(data.symbol) : tick[1] > t
            fresh == SelectSeq(data.data, Newer)
        IN save_data_to_db(ticks, data) =
            ticks \o [i \in 1..Len(fresh) |-> TickDoc(data.symbol, data.isin, fresh[i])]

\* An update has put later ticks of A behind earlier ones, beside a tick of B.
C5_Witness ==
    /\ last = Ran("update", "")
    /\ \E i, j, k \in 1..Len(ticks) :
        /\ i < j
        /\ ticks[i].symbol = "A" /\ ticks[j].symbol = "A" /\ ticks[i].time < ticks[j].time
        /\ ticks[k].symbol = "B"

SecurityOf(id) == {sec \in Listed : sec.symbol = id \/ sec.isin = id}
OnWatchlist(sec) ==
    \E i \in 1..Len(stocks) : stocks[i].symbol = sec.symbol \/ stocks[i].isin = sec.isin
Unique ==
    \A i, j \in 1..Len(stocks) :
        i # j => stocks[i].symbol # stocks[j].symbol /\ stocks[i].isin # stocks[j].isin

\* C7: an add of a security whose symbol or isin is in the watchlist ends in
\* _exit and changes neither the watchlist nor the ticks; and no two entries of
\* the watchlist share a symbol or an isin.
C7_WatchlistUnique ==
    /\ Unique
    /\ \A id \in Ids : \A rows \in ExportsOf(id) : \A sec \in SecurityOf(id) :
            OnWatchlist(sec) => do_add(Here, id, rows) = Aborted(Here, Tracked)

\* An add was refused while both securities were on the watchlist.
C7_Witness == last = Ran("add", Tracked) /\ Len(stocks) = 2

RECURSIVE Without(_, _)
Without(docs, ids) ==
    IF docs = <<>> THEN <<>>
    ELSE IF Head(docs).symbol \in ids \/ Head(docs).isin \in ids
         THEN Without(Tail(docs), ids)
         ELSE <<Head(docs)>> \o Without(Tail(docs), ids)

\* C8: for every set of identifiers, remove leaves the watchlist without the
\* entries whose symbol or isin is named and the ticks as they were; purge leaves
\* the same watchlist and the ticks without those whose symbol or isin is named.
C8_RemoveAndPurge ==
    \A ids \in SUBSET Ids :
        /\ do_remove(Here, ids, FALSE) =
                Done(State(Without(stocks, ids), ticks, files))
        /\ do_remove(Here, ids, TRUE) =
                Done(State(Without(stocks, ids), Without(ticks, ids), files))

\* A purge took one security away and left an entry and ticks of the other.
C8_Witness ==
    /\ last = Ran("purge", "")
    /\ Len(stocks) = 1
    /\ ticks # <<>>
    /\ \A i \in 1..Len(ticks) : ticks[i].symbol = stocks[1].symbol

\* C10: every tick load inserts carries a symbol and an isin: with add and
\* update inserting none without, no tick of the store lacks either.
C10_TicksCarryIdentity ==
    \A i \in 1..Len(ticks) : ticks[i].symbol # "" /\ ticks[i].isin # ""

\* ------------------------------------------------------------ the files
\* Most lines a file is let grow to.
MaxFile == 3

\* What a file found on disk may hold: nothing, one record, records newest
\* first, and a row whose first field is no datetime, last or not.
FoundRow(format, t) == IF format = "csv" THEN CsvRow(t) ELSE JsonRow(t)
BadRow(format) ==
    IF format = "csv" THEN <<BadStr, StrNum(21), StrNum(90)>> ELSE <<BadStr, Num(21), Num(90)>>
FoundLines(format) ==
    { <<>>,
      <<FoundRow(format, 1)>>,
      <<FoundRow(format, MaxT), FoundRow(format, 1)>>,
      <<FoundRow(format, 1), BadRow(format)>>,
      <<BadRow(format), FoundRow(format, 1)>> }
FoundFiles(format) ==
    IF format = "csv" THEN {CsvFile(rows) : rows \in FoundLines("csv")}
    ELSE {JsonFile("A", "IA", rows) : rows \in FoundLines("json")}

Watched == <<Stock("A", "IA"), Stock("B", "IB")>>
Doc(symbol, isin, t) == TickDoc(symbol, isin, <<t, 21, 90>>)
\* The store export reads: a tick of A at every time, one of B.
Stored == [i \in 1..MaxT |-> Doc("A", "IA", i)] \o <<Doc("B", "IB", 1)>>

FileIds == {"A", "X"}
AllOptions == {Options(f, m, <<>>) : f \in Formats, m \in Modes}
Froms == {NoTime, MaxT}
Tos == {NoTime, 1}

\* The answers of at most two trades.
Short(exports) == {rows \in exports : Len(rows) <= 2}

Fits == \A name \in FileNames : Len(files'[name].rows) <= MaxFile

InitFiles ==
    /\ stocks = Watched
    /\ ticks = Stored
    /\ \/ files = NoFiles
       \/ \E format \in Formats : \E f \in FoundFiles(format) :
            files = [NoFiles EXCEPT ![FileName("A", format)] = f]
    /\ last = Ran("init", "")

NextFiles ==
    \/ \E id \in FileIds : \E rows \in Short(ExportsOf(id)), o \in AllOptions :
            Grab(id, rows, o) /\ Fits
    \/ \E id \in FileIds, from \in Froms, to \in Tos, o \in AllOptions :
            Export(id, from, to, o) /\ Fits

SpecFiles == InitFiles /\ [][NextFiles]_vars

\* The series grab and export hand to save_data: records of A, oldest first.
FileSeries == {MarketData("A", "IA", Reverse(r)) : r \in RawRows}
Target(format) == FileName("A", format)

\* The rows of a series as a file of the format holds them.
RowOf(format, tick) ==
    IF format = "csv" THEN <<StrDt(tick[1]), StrNum(tick[2]), StrNum(tick[3])>>
    ELSE <<StrDt(tick[1]), Num(tick[2]), Num(tick[3])>>
RowsOf(format, ticks_) == [i \in 1..Len(ticks_) |-> RowOf(format, ticks_[i])]
FileOf(format, data) ==
    IF format = "csv" THEN CsvFile(RowsOf("csv", data.data))
    ELSE JsonFile(data.symbol, data.isin, RowsOf("json", data.data))

\* A file of the format that holds records and that peek accepts.
Accepted(format, f) == f.type = format /\ f.rows # <<>> /\ peek(format, f).ok
AllParse(f) == \A i \in 1..Len(f.rows) : RowParses(f.rows[i])
TimeOf(row) == parse_datetime(row[1])
MaxTime(f) ==
    CHOOSE t \in {TimeOf(f.rows[i]) : i \in 1..Len(f.rows)} :
        \A i \in 1..Len(f.rows) : t >= TimeOf(f.rows[i])
LastTime(f) == TimeOf(f.rows[Len(f.rows)])

\* What append leaves of the file f when it adds the records of data later than t.
Appended(format, f, data, t) ==
    LET Later(tick) == tick[1] > t
    IN f.rows \o RowsOf(format, SelectSeq(data.data, Later))

\* C2 as stated: for every file of A that peek accepts and whose records have
\* the maximum time T, and every incoming series, append ends well and leaves
\* the file's rows followed by the incoming records later than T, in order.
C2_AppendsRecordsAfterMaximum ==
    \A format \in Formats : \A data \in FileSeries :
        LET f == files[Target(format)]
            res == save_data(files, data, format, "append", <<>>)
        IN (Accepted(format, f) /\ AllParse(f)) =>
            /\ res.ok
            /\ res.fs[Target(format)].rows = Appended(format, f, data, MaxTime(f))

\* C2 amended: for every file of A that peek accepts and whose last record has
\* the time T, and every incoming series, append ends well, leaves the file's
\* rows followed by the incoming records later than T, in order, and leaves
\* every other file as it was.
C2_AppendsRecordsAfterLast ==
    \A format \in Formats : \A data \in FileSeries :
        LET f == files[Target(format)]
            res == save_data(files, data, format, "append", <<>>)
        IN Accepted(format, f) =>
            /\ res.ok
            /\ res.fs[Target(format)].type = format
            /\ res.fs[Target(format)].rows = Appended(format, f, data, LastTime(f))
            /\ \A name \in FileNames \ {Target(format)} : res.fs[name] = files[name]

\* A grab has appended the tick at MaxT to a JSON file found with its records
\* newest first: the last record was earlier, the maximum was not.
C2_Witness ==
    /\ last = Ran("grab", "")
    /\ files[Target("json")].rows = <<JsonRow(MaxT), JsonRow(1), JsonRow(MaxT)>>

\* C3 as stated: for either format and whatever the file of A holds, overwrite
\* ends well and leaves in the file the records of the new series and no other.
C3_OverwriteReplaces ==
    \A format \in Formats : \A data \in FileSeries :
        LET res == save_data(files, data, format, "overwrite", <<>>)
        IN res.ok /\ res.fs[Target(format)] = FileOf(format, data)

\* C4: for either format and every series, strict ends with 'already exists'
\* and changes no file when the file of A exists, whatever it holds; when it
\* does not exist, strict ends well, the file holds the whole series and every
\* other file is as it was.
C4_StrictNeverTouchesExisting ==
    \A format \in Formats : \A data \in FileSeries :
        LET res == save_data(files, data, format, "strict", <<>>)
        IN IF files[Target(format)].type # "none"
           THEN ~res.ok /\ res.err = Exists /\ res.fs = files
           ELSE res.ok /\ res.fs = [files EXCEPT ![Target(format)] = FileOf(format, data)]

\* A grab in strict mode has ended with 'already exists' beside a CSV file of A
\* that holds records.
C4_Witness ==
    /\ last = Ran("grab", Exists)
    /\ files[Target("csv")].type = "csv" /\ files[Target("csv")].rows # <<>>

\* What the store holds and what it held before: the beginnings of ticks.
Stores == {SubSeq(ticks, 1, n) : n \in 0..Len(ticks)}

\* C1: for every series, oldest first, and either format, appending the series
\* to the file of A twice leaves every file as appending it once does; for every
\* series and every beginning of the store, save_data_to_db applied twice leaves
\* the store as applying it once does.
C1_AppendIdempotent ==
    /\ \A format \in Formats : \A data \in FileSeries :
            LET once == save_data(files, data, format, "append", <<>>)
                twice == save_data(once.fs, data, format, "append", <<>>)
            IN twice.fs = once.fs /\ twice.ok = once.ok
    /\ \A data \in FileSeries : \A store \in Stores :
            LET once == save_data_to_db(store, data)
            IN save_data_to_db(once, data) = once

\* A grab has appended the ticks after the first second to a JSON file that
\* held that second's tick last: appending them again adds nothing.
C1_Witness ==
    /\ last = Ran("grab", "")
    /\ files[Target("json")].rows = <<BadRow("json"), JsonRow(1), JsonRow(MaxT)>>
    /\ \E data \in FileSeries :
        /\ data.data # <<>>
        /\ save_data(files, data, "json", "append", <<>>).fs = files

\* Every series of A, its records in any order.
AnySeries == {MarketData("A", "IA", d) : d \in SeriesData}

\* The series export reads from the store, one for each security it tracks.
StoredSeries ==
    {MarketData(d.symbol, d.isin, d.data) :
        d \in {load_data_from_db(stocks, ticks, id, NoTime, NoTime) :
                    id \in {s \in Ids : find_stock(stocks, s) # NoStock}}}

MaxBatch == 2

\* The lists the commands run on.
RunLists == {<<>>, <<"X", "A">>, <<"A", "IB">>}

\* Every list of a known and an unknown identifier, and the lists above.
BatchIds == {"A", "X"}
IdLists == UNION {[1..n -> BatchIds] : n \in 0..MaxBatch} \cup RunLists

\* The answers of the exchange: A has traded once or twice, B once.
Trades(t) == <<t, 21, 90>>
Exchange ==
    {[id \in Ids |-> IF id \in {"A", "IA"} THEN r ELSE <<Trades(EPOCH + 1)>>] :
        r \in {<<Trades(EPOCH + 1)>>, <<Trades(MaxT), Trades(EPOCH + 1)>>}}

NoOptions == Options("", "", <<>>)
RunOptions == {Options("csv", "append", <<>>), Options("json", "strict", <<>>)}
Today == CHOOSE answers \in Exchange : Len(answers["A"]) = 1

InitBatch ==
    /\ stocks = <<>>
    /\ ticks = <<>>
    /\ files = NoFiles
    /\ last = Ran("init", <<>>)

NextBatch ==
    \/ \E ids \in RunLists, answers \in Exchange :
            Batch("add", ids, Args(answers, NoTime, NoTime, NoOptions))
    \/ \E ids \in RunLists, answers \in Exchange :
            Batch("update", ids, Args(answers, NoTime, NoTime, NoOptions))
    \/ \E ids \in RunLists, o \in RunOptions :
            Batch("grab", ids, Args(Today, NoTime, NoTime, o)) /\ Fits
    \/ \E ids \in RunLists, o \in RunOptions :
            Batch("export", ids, Args(Today, NoTime, NoTime, o)) /\ Fits

SpecBatch == InitBatch /\ [][NextBatch]_vars

BatchCommands == {"add", "grab", "update", "export"}
BatchArgs(cmd) ==
    IF cmd \in {"add", "update"}
    THEN {Args(answers, NoTime, NoTime, NoOptions) : answers \in Exchange}
    ELSE IF cmd = "grab"
    THEN {Args(answers, NoTime, NoTime, o) : answers \in Exchange, o \in AllOptions}
    ELSE {Args(Today, NoTime, NoTime, o) : o \in AllOptions}

\* The identifiers of a list whose call ended well, in the list's order.
Succeeding(ids, log) ==
    LET Well(k) == log[k].err = ""
        at == SelectSeq([k \in 1..Len(ids) |-> k], Well)
    IN [i \in 1..Len(at) |-> ids[at[i]]]

\* What the calls on a list's identifiers return, one after another, each on
\* the state the one before it left.
RECURSIVE Calls(_, _, _, _)
Calls(cmd, st, ids, args) ==
    IF ids = <<>> THEN <<>>
    ELSE LET res == Call(cmd, st, Head(ids), args)
         IN <<res>> \o Calls(cmd, res.st, Tail(ids), args)

\* C6: in every state, for every command on a list, every list of identifiers
\* and every answer of the exchange: each identifier is called once, in the
\* list's order, on the state the call before it left, whether that call ended
\* in _exit or not; a call that ends in _exit leaves the watchlist, the ticks
\* and the files as it found them; and the command leaves the state that the
\* identifiers whose calls ended well leave when they alone are given.
C6_BatchFailureIsolation ==
    \A cmd \in BatchCommands : \A given \in IdLists : \A args \in BatchArgs(cmd) :
        LET ids == IF cmd = "update" THEN update_list(Here, given) ELSE given
            run == main(cmd, Here, given, args)
            calls == Calls(cmd, Here, ids, args)
            well == Succeeding(ids, run.log)
            alone == process_stocks(cmd, Here, well, args)
        IN /\ Len(run.log) = Len(ids)
           /\ \A k \in 1..Len(ids) :
                /\ run.log[k] = [id |-> ids[k], err |-> calls[k].err]
                /\ ~calls[k].ok => calls[k].st = (IF k = 1 THEN Here ELSE calls[k - 1].st)
           /\ run.st = (IF ids = <<>> THEN Here ELSE calls[Len(ids)].st)
           /\ alone.st = run.st
           /\ \A k \in 1..Len(well) : alone.log[k].err = ""

\* An add of X and A has found X unknown to the exchange and then added A.
C6_Witness ==
    /\ last = Ran("add", <<[id |-> "X", err |-> NotFound], [id |-> "A", err |-> ""]>>)
    /\ OnWatchlist(Stock("A", "IA"))

\* ------------------------------------------------------- the parsers
\* Most lines the exchange answers with.
MaxLines == 5

\* What the exchange may answer when its answer is any text: a first line with
\* or without the header pattern, or blank; a second line with the date, or
\* blank; the column names; then lines of a trade, lines whose time or whose
\* price is no such text, and blank lines; cut off after any line.
FirstLines == {<<HeaderField(Stock("A", "IA"))>>, <<Text>>, <<>>}
SecondLines == {<<DateField(EPOCH), Text>>, <<>>}
ColumnNames == <<Text, Text, Text, Text>>
LaterLines ==
    {DataLine(t - EPOCH, 21, 90) : t \in Times}
        \cup {<<Text, StrNum(21), StrNum(90), Text>>, <<TimeField(1), Text, StrNum(90), Text>>, <<>>}
Texts ==
    {<<>>} \cup {<<a>> : a \in FirstLines}
        \cup {<<a, b>> : a \in FirstLines, b \in SecondLines}
        \cup {<<a, b, ColumnNames>> \o rest :
                a \in FirstLines, b \in SecondLines,
                rest \in UNION {[1..n -> LaterLines] : n \in 0..(MaxLines - 3)}}

\* What a grab to STDOUT has shown: the text the exchange answered and what
\* _parse_raw made of it.
Answered(text, res) == [text |-> text, ok |-> res.ok, err |-> res.err, data |-> res.data]

\* grab <id> --json -f -, the exchange answering text: an exception of
\* _parse_raw ends the program, a series goes to STDOUT.
GrabText(text) ==
    LET data == parse_raw(text)
    IN /\ files' = IF data.ok THEN save_data(files, data, "json", "strict", Stdout).fs
                   ELSE files
       /\ last' = Ran("grab", Answered(text, data))
       /\ UNCHANGED <<stocks, ticks>>

InitParse ==
    /\ stocks = <<>>
    /\ ticks = <<>>
    /\ files = NoFiles
    /\ last = Ran("init", <<>>)

NextParse == \E text \in Texts : GrabText(text)

SpecParse == InitParse /\ [][NextParse]_vars

\* A text _parse_raw is to reject: no header pattern in the first line, fewer
\* than four lines, or a data line (the fourth to the last but one) whose
\* time, price or volume does not parse.
LineOfTrade(line) ==
    Len(line) >= 3 /\ line[1].k = "time" /\ line[2].k = "num" /\ line[3].k = "num"
Malformed(text) ==
    \/ Len(text) < 4
    \/ text[1] = <<>> \/ text[1][1].k # "header"
    \/ \E i \in 4..(Len(text) - 1) : ~LineOfTrade(text[i])

\* C11 as stated: whenever grab has been answered a text without the header
\* pattern, of fewer than four lines or with a data line that does not parse,
\* _parse_raw has failed and returned no series.
C11_ParserRejectsMalformed ==
    last.cmd = "grab" => (Malformed(last.err.text) => ~last.err.ok)

\* ----------------------------------------------------- the CSV reader
\* The lines of a CSV file load is given: records of three columns, records
\* with a fourth column, lines of two columns, lines whose first field is no
\* datetime, and blank lines, at most MaxFile of them.
CsvLines ==
    {CsvRow(t) : t \in Times}
        \cup {CsvRow(1) \o <<Text>>, <<StrDt(1), StrNum(21)>>,
              <<BadStr, StrNum(21), StrNum(90)>>, <<>>}
CsvTexts == UNION {[1..n -> CsvLines] : n \in 0..MaxFile}

InitRead ==
    /\ stocks = Watched
    /\ ticks = <<>>
    /\ \E lines \in CsvTexts : files = [NoFiles EXCEPT ![Target("csv")] = CsvFile(lines)]
    /\ last = Ran("init", "")

NextRead == \E as_id \in {"", "IB", "X"} : Load(Target("csv"), as_id, "")

SpecRead == InitRead /\ [][NextRead]_vars

\* The first three columns of a line are the texts of a datetime, a price and
\* a volume.
Valid(line) == line[1].k = "dt" /\ line[2].k = "num" /\ line[3].k = "num"
Record(line) == <<line[1].v, line[2].v, line[3].v>>
Reads(res, lines) ==
    /\ res.ok /\ res.symbol = "" /\ res.isin = ""
    /\ res.data = [i \in 1..Len(lines) |-> Record(lines[i])]

\* C12 as stated: _read_csv accepts the file when each of its lines has three
\* columns or more, the first three valid, and returns one record for each
\* line, in order, with no symbol and no isin; when it does not accept the
\* file it raises BrokenFile and one of the first three fields of some line
\* does not parse or is missing.
C12_ReadCsvIgnoresExtraColumns ==
    LET lines == files[Target("csv")].rows
        res == read_csv(files[Target("csv")])
    IN /\ (\A i \in 1..Len(lines) : Len(lines[i]) >= 3 /\ Valid(lines[i]))
            => Reads(res, lines)
       /\ ~res.ok =>
            /\ res.err = BrokenFile
            /\ \E i \in 1..Len(lines) : Len(lines[i]) < 3 \/ ~Valid(lines[i])

\* C12 amended: _read_csv accepts the file when each of its lines has exactly
\* three columns, all valid, and returns one record for each line, in order,
\* with no symbol and no isin; in every other case, a line of fewer or of more
\* than three columns among them, it raises BrokenFile.
C12_ReadCsvTakesThreeColumns ==
    LET lines == files[Target("csv")].rows
        res == read_csv(files[Target("csv")])
    IN IF \A i \in 1..Len(lines) : Len(lines[i]) = 3 /\ Valid(lines[i])
       THEN Reads(res, lines)
       ELSE ~res.ok /\ res.err = BrokenFile

\* A load has found the file broken whose every line holds a valid record and
\* one of them a fourth column.
C12_Witness ==
    LET lines == files[Target("csv")].rows
    IN /\ last = Ran("load", BrokenFormat)
       /\ \A i \in 1..Len(lines) : Len(lines[i]) >= 3 /\ Valid(lines[i])
       /\ \E i \in 1..Len(lines) : Len(lines[i]) = 4

====
